---- MODULE Spec2Model ----
(***************************************************************************)
(* A model of agentic_framework.orchestrator.AgentOrchestrator: the        *)
(* execution history and one execute_task call at a time, with the three   *)
(* execution strategies, the per-call deadlines of asyncio.wait_for and    *)
(* the except clauses of execute_task.                                     *)
(*                                                                         *)
(* Agents are opaque: an invoked agent either returns a result dict with   *)
(* success true or false, raises an exception, or is still running when    *)
(* the deadline of its wait_for expires.  Time is counted in ticks; an     *)
(* agent can complete while fewer than task.timeout ticks have elapsed     *)
(* since its wait_for started, and the timer fires when task.timeout ticks *)
(* have.  A cancelled agent stops.  The readings of datetime.now() in the  *)
(* execution record and the envelope (execution_time, timestamp) are left  *)
(* out.                                                                    *)
(*                                                                         *)
(* Spec is one orchestrator running tasks over opaque agents.              *)
(* SpecRegistry adds the registry calls (add_agent, remove_agent,          *)
(* agent_handoff, get_stats) around short execute_task calls; registry     *)
(* calls are not made while an agent_handoff is in progress.  SpecAgent is *)
(* one agent.Agent: its execute with the memory, reasoning, tool and       *)
(* response steps, each of which returns or raises.                        *)
(***************************************************************************)
EXTENDS Integers, Sequences, FiniteSets, TLC

\* Bounds of the model.
MaxAgents == 3
MaxTimeout == 2
MaxHistory == 1

\* Python's None.
None == [none |-> TRUE]

\* The value of a dict key that can be missing: None when it is.
Some(v) == [some |-> v]

\* A context dict, by its keys.
Dict(topic, previous_results, results) ==
    [topic |-> topic, previous_results |-> previous_results, results |-> results]

EmptyDict == Dict(None, None, None)

\* Task.context: None, {} or a dict with a key of the caller.
TaskContexts == {None, EmptyDict, Dict(Some("draft"), None, None)}

\* bool(d) of a dict or None.
Truthy(d) == d # None /\ d # EmptyDict

\* context = task.context or {}
LocalContext(t) == IF Truthy(t.context) THEN t.context ELSE EmptyDict

\* class ExecutionMode, and one value outside of it.
Modes == {"sequential", "parallel", "conditional"}
OtherMode == "broadcast"

Descriptions == {"Test task"}

\* An agent is identified by its config.name, here a number.
AgentSequences == {[k \in 1..n |-> k] : n \in 0..MaxAgents}

\* class Task, with the default of context.
Tasks ==
    [description : Descriptions,
     agent_sequence : AgentSequences,
     execution_mode : Modes \cup {OtherMode},
     context : {None},
     timeout : {MaxTimeout}]

\* class Task, with a context or without.
ContextTasks ==
    [description : Descriptions,
     agent_sequence : AgentSequences,
     execution_mode : Modes \cup {OtherMode},
     context : TaskContexts,
     timeout : {MaxTimeout}]

\* The two dicts Agent.execute returns.
AgentSuccess(a) == [success |-> TRUE, response |-> [content |-> a], agent |-> a]
AgentFailure(a) == [success |-> FALSE, error |-> "agent failed", agent |-> a]
AgentResults(a) == {AgentSuccess(a), AgentFailure(a)}

\* Exceptions an agent's execute may raise instead of returning.
TimeoutError == [kind |-> "TimeoutError", msg |-> ""]
Crash == [kind |-> "Exception", msg |-> "agent crashed"]
AgentExceptions == {Crash, TimeoutError}
\* gather stores any exception as the outcome of its coroutine, whatever its
\* class: one exception stands for them.
GatheredExceptions == {Crash}

\* The classes an exception of the given class is an instance of.
Bases(kind) ==
    CASE kind = "TimeoutError" -> {"TimeoutError", "Exception", "BaseException"}
      [] kind = "ValueError" -> {"ValueError", "Exception", "BaseException"}
      [] kind = "KeyError" -> {"KeyError", "LookupError", "Exception", "BaseException"}
      [] kind = "Exception" -> {"Exception", "BaseException"}
      [] OTHER -> {"BaseException"}
IsInstance(exc, cls) == cls \in Bases(exc.kind)

Last(s) == s[Len(s)]

\* The names agents get registered under, and the agent objects: two agents
\* of one name differ in their id.
RegistryNames == {1, 2}
AgentIds == {1, 2}
Agents == [name : RegistryNames, id : AgentIds]

\* str() of a str is the str; str() of a dict is its repr.
Lit(s) == [lit |-> s, repr |-> None]
Repr(v) == [lit |-> "", repr |-> v]

VARIABLES
    execution_history,  \* self.execution_history
    pc,                 \* where the execute_task call is
    task,               \* the Task of the call
    idx,                \* position of the for loop in task.agent_sequence
    results,            \* the local results list
    futs,               \* the outcomes asyncio.gather collects, by position
    elapsed,            \* ticks since the pending wait_for started
    clock,              \* ticks since execute_task started
    invoked,            \* the agent.execute calls made, in order
    envelope,           \* what execute_task returned
    timedOut,           \* the timer of a wait_for fired
    hist0,              \* execution_history when execute_task was called
    ctx,                \* the local context of the strategy
    task_context,       \* the dict task.context refers to, as it is now
    agents,             \* self.agents, a dict in insertion order
    latest,             \* by name, the id of the agent added last, 0 once removed
    lastOp,             \* the last add_agent or remove_agent call
    hpc,                \* where the agent_handoff call is
    handoff,            \* the arguments of the agent_handoff call
    hcalls,             \* the agent.execute calls agent_handoff made
    handoffOut,         \* what agent_handoff returned or raised
    stats,              \* what the last get_stats call returned
    successes,          \* envelopes with success true the caller received
    aconfig,            \* the agent's config
    memory_system,      \* the agent has a memory system
    agent_history,      \* the agent's execution_history
    apc,                \* where the agent's execute call is
    atask,              \* the task of the execute call
    reasoning_result,   \* the local reasoning_result
    tidx,               \* position of the loop of _execute_tools in tool_calls
    tool_results,       \* the local results of _execute_tools
    response,           \* the local response
    aresult,            \* what execute returned
    memcalls,           \* the calls of the memory system execute made
    toolcalls,          \* the tool.execute calls made, in order
    afailed,            \* the exception that left a step of execute
    asuccesses,         \* results with success true the agent's caller received
    astats,             \* what the agent's last get_stats call returned
    memory_passed,      \* a memory_system object was passed to Agent(...)
    frames,             \* the frames of two execute_task calls in flight together
    heap,               \* the dict objects tasks and frames refer to
    conv,               \* a ConversationMemory: its messages and max_messages
    added,              \* every message add_message was called with, in order
    twin,               \* a Sequential and a Conditional run of one scripted task
    max_concurrent_agents   \* the orchestrator's max_concurrent_agents

vars == <<execution_history, pc, task, idx, results, futs, elapsed, clock,
          invoked, envelope, timedOut, hist0, ctx, task_context, agents, latest, lastOp, hpc,
          handoff, hcalls, handoffOut, stats, successes, aconfig,
          memory_system, agent_history, apc, atask, reasoning_result, tidx,
          tool_results, response, aresult, memcalls, toolcalls, afailed,
          asuccesses, astats, memory_passed, frames, heap, conv, added, twin,
          max_concurrent_agents>>

registry == <<agents, latest, lastOp, hpc, handoff, hcalls, handoffOut, stats>>

\* What the steps inside an execute_task call leave alone.
agentv == <<aconfig, memory_system, agent_history, apc, atask, reasoning_result,
            tidx, tool_results, response, aresult, memcalls, toolcalls, afailed,
            asuccesses, astats, memory_passed>>

\* What every step of the one-call-at-a-time specifications leaves alone.
inter == <<frames, heap>>

\* The ConversationMemory object.
memv == <<conv, added>>

\* What every step of the orchestrator and of the agent leaves alone.
beside == <<inter, memv, twin, max_concurrent_agents>>

others == <<registry, successes, agentv, beside>>

run == <<task, idx, results, futs, elapsed, clock, invoked, timedOut, hist0,
         ctx, task_context>>

\* What the steps of an agent leave alone.
orch == <<execution_history, pc, envelope, run, registry, successes, beside>>

\* The state of the orchestrator and the agent apart from the history.
single == <<pc, envelope, run, registry, successes, agentv>>

\* What the steps of the interleaved calls, of the ConversationMemory and of
\* the scripted runs leave alone.
notInter == <<single, memv, twin, max_concurrent_agents>>
notMemory == <<execution_history, single, inter, twin, max_concurrent_agents>>
notTwin == <<execution_history, single, inter, memv, max_concurrent_agents>>

\* Two execute_task coroutines on one orchestrator and one event loop.
CallIds == {1, 2}

\* The dict objects of the callers: two with a key, one empty; and the dict
\* `{}` each call of _execute_sequential can create.
NonEmptyDicts == {1, 2}
CallerDicts == NonEmptyDicts \cup {3}
LocalDict(c) == 3 + c
DictRefs == CallerDicts \cup {LocalDict(c) : c \in CallIds}

\* The locals of a call that has not started.
IdleFrame ==
    [pc |-> "idle", task |-> None, idx |-> 1, results |-> <<>>, context |-> None,
     envelope |-> None]

\* self.max_concurrent_agents, the default of the constructor.
MaxConcurrentAgents == 5

\* AgentOrchestrator.__init__ apart from max_concurrent_agents, with the
\* objects around the orchestrator not yet made.
Constructed ==
    /\ execution_history = <<>>
    /\ pc = "idle"
    /\ task = None
    /\ idx = 1
    /\ results = <<>>
    /\ futs = <<>>
    /\ elapsed = 0
    /\ clock = 0
    /\ invoked = <<>>
    /\ envelope = None
    /\ timedOut = FALSE
    /\ hist0 = <<>>
    /\ ctx = None
    /\ task_context = None
    /\ agents = <<>>
    /\ latest = [n \in RegistryNames |-> 0]
    /\ lastOp = None
    /\ hpc = "idle"
    /\ handoff = None
    /\ hcalls = <<>>
    /\ handoffOut = None
    /\ stats = None
    /\ successes = 0
    /\ aconfig = None
    /\ memory_system = FALSE
    /\ agent_history = <<>>
    /\ apc = "none"
    /\ atask = None
    /\ reasoning_result = None
    /\ tidx = 1
    /\ tool_results = <<>>
    /\ response = None
    /\ aresult = None
    /\ memcalls = <<>>
    /\ toolcalls = <<>>
    /\ afailed = None
    /\ asuccesses = 0
    /\ astats = None
    /\ memory_passed = FALSE
    /\ conv = None
    /\ added = <<>>
    /\ twin = None
    /\ frames = [c \in CallIds |-> IdleFrame]
    /\ heap = [r \in DictRefs |->
                 IF r \in NonEmptyDicts THEN Dict(Some("draft"), None, None)
                                       ELSE EmptyDict]

\* AgentOrchestrator(): max_concurrent_agents has its default.
Init == Constructed /\ max_concurrent_agents = MaxConcurrentAgents

\* AgentOrchestrator(max_concurrent_agents = m)
InitConcurrency ==
    Constructed /\ max_concurrent_agents \in 1..MaxConcurrentAgents

----------------------------------------------------------------------------
\* execute_task: the record, the envelopes and the except clauses.

ExecutionRecord(t, result) == [task |-> t.description, result |-> result]

SuccessEnvelope_AllSucceeded(result) ==
    [success |-> \A k \in DOMAIN result.results : result.results[k].success,
     result |-> result]

SuccessEnvelope(result) == [success |-> TRUE, result |-> result]

TimeoutEnvelope == [success |-> FALSE, error |-> "Task execution timeout"]

ErrorEnvelope(exc) ==
    IF IsInstance(exc, "TimeoutError")
    THEN TimeoutEnvelope
    ELSE [success |-> FALSE, error |-> exc.msg]

Caught_OnlyTimeout(exc) == IsInstance(exc, "TimeoutError")

Caught(exc) == IsInstance(exc, "TimeoutError") \/ IsInstance(exc, "Exception")

ReturnSuccess_KeepLast(t, result) ==
    /\ execution_history' = <<ExecutionRecord(t, result)>>
    /\ envelope' = SuccessEnvelope(result)
    /\ pc' = "returned"

\* The try body ran to its end with this result.
ReturnSuccess(t, result) ==
    /\ execution_history' = Append(execution_history, ExecutionRecord(t, result))
    /\ envelope' = SuccessEnvelope(result)
    /\ pc' = "returned"

RaiseInTask_Recorded(exc) ==
    /\ execution_history' = Append(execution_history, [error |-> exc.msg])
    /\ envelope' = ErrorEnvelope(exc)
    /\ pc' = "returned"

\* An exception reaches the except clauses of execute_task.
RaiseInTask(exc) ==
    /\ UNCHANGED execution_history
    /\ IF Caught(exc)
       THEN envelope' = ErrorEnvelope(exc) /\ pc' = "returned"
       ELSE envelope' = None /\ pc' = "raised"

UnknownMode(mode) == [kind |-> "ValueError", msg |-> "Unknown execution mode: broadcast"]

ExecuteTask_DefaultSequential(t) ==
    /\ pc = "idle"
    /\ Len(execution_history) < MaxHistory
    /\ task' = t
    /\ hist0' = execution_history
    /\ task_context' = t.context
    /\ ctx' = IF t.execution_mode = "parallel" THEN None ELSE LocalContext(t)
    /\ pc' = IF t.execution_mode \in Modes THEN t.execution_mode ELSE "sequential"
    /\ UNCHANGED <<idx, results, futs, elapsed, clock, invoked, timedOut,
                   execution_history, envelope>>
    /\ UNCHANGED others

ExecuteTask(t) ==
    /\ pc = "idle"
    /\ Len(execution_history) < MaxHistory
    /\ task' = t
    /\ hist0' = execution_history
    /\ task_context' = t.context
    /\ ctx' = IF t.execution_mode \in {"sequential", "conditional"}
              THEN LocalContext(t) ELSE None
    /\ UNCHANGED <<idx, results, futs, elapsed, clock, invoked, timedOut>>
    /\ IF t.execution_mode \in Modes
       THEN /\ pc' = t.execution_mode
            /\ UNCHANGED <<execution_history, envelope>>
       ELSE RaiseInTask(UnknownMode(t.execution_mode))
    /\ UNCHANGED others

\* execute_task of a task with any context, on an orchestrator that has no
\* history yet.
ExecuteContextTask(t) ==
    /\ execution_history = <<>>
    /\ ExecuteTask(t)

\* The caller has the envelope; the locals of the call are gone.
Return ==
    /\ pc = "returned"
    /\ pc' = "idle"
    /\ task' = None
    /\ idx' = 1
    /\ results' = <<>>
    /\ futs' = <<>>
    /\ elapsed' = 0
    /\ clock' = 0
    /\ invoked' = <<>>
    /\ envelope' = None
    /\ timedOut' = FALSE
    /\ hist0' = <<>>
    /\ ctx' = None
    /\ task_context' = None
    /\ UNCHANGED execution_history
    /\ successes' = IF envelope.success THEN successes + 1 ELSE successes
    /\ UNCHANGED <<registry, agentv, beside>>

\* One tick passes while a wait_for is pending.
Tick ==
    /\ pc \in {"seq_await", "cond_await", "par_await"}
    /\ pc = "par_await" => \E k \in DOMAIN futs : futs[k].state = "pending"
    /\ elapsed < task.timeout
    /\ elapsed' = elapsed + 1
    /\ clock' = clock + 1
    /\ UNCHANGED <<execution_history, pc, task, idx, results, futs, invoked,
                   envelope, timedOut, hist0>>
    /\ UNCHANGED others
    /\ UNCHANGED <<ctx, task_context>>

\* An agent.execute call: its arguments, and when it was made.
Call(pos, input, context) ==
    [pos |-> pos, agent |-> task.agent_sequence[pos], input |-> input,
     context |-> context, at |-> clock, returned |-> Len(results)]

----------------------------------------------------------------------------
\* _execute_sequential

AgentTask_Description == Lit(task.description)

\* agent_task, passed through str().
AgentTask ==
    IF results = <<>> THEN Lit(task.description) ELSE Repr(Last(results).response)

SequentialResult_FirstOutput(rs) ==
    [mode |-> "sequential",
     results |-> rs,
     final_output |-> IF rs = <<>> THEN None ELSE rs[1]]

SequentialResult(rs) ==
    [mode |-> "sequential",
     results |-> rs,
     final_output |-> IF rs = <<>> THEN None ELSE Last(rs)]

SeqInvoke_OneDeadline ==
    /\ pc = "sequential"
    /\ idx <= Len(task.agent_sequence)
    /\ invoked' = Append(invoked, Call(idx, AgentTask, ctx))
    /\ pc' = "seq_await"
    /\ UNCHANGED <<execution_history, task, idx, results, futs, elapsed, clock,
                   envelope, timedOut, hist0>>
    /\ UNCHANGED others
    /\ UNCHANGED <<ctx, task_context>>

SeqInvoke_NoAwait ==
    /\ pc = "sequential"
    /\ idx <= Len(task.agent_sequence)
    /\ invoked' = Append(invoked, Call(idx, AgentTask, ctx))
    /\ idx' = idx + 1
    /\ UNCHANGED <<execution_history, pc, task, results, futs, elapsed, clock,
                   envelope, timedOut, hist0>>
    /\ UNCHANGED others
    /\ UNCHANGED <<ctx, task_context>>

\* The loop reaches its next agent and awaits wait_for(agent.execute(...)).
SeqInvoke ==
    /\ pc = "sequential"
    /\ idx <= Len(task.agent_sequence)
    /\ invoked' = Append(invoked, Call(idx, AgentTask, ctx))
    /\ elapsed' = 0
    /\ pc' = "seq_await"
    /\ UNCHANGED <<execution_history, task, idx, results, futs, clock, envelope,
                   timedOut, hist0>>
    /\ UNCHANGED others
    /\ UNCHANGED <<ctx, task_context>>

SeqDone_IndexError ==
    /\ pc = "sequential"
    /\ idx > Len(task.agent_sequence)
    /\ IF results = <<>>
       THEN RaiseInTask([kind |-> "Exception", msg |-> "list index out of range"])
       ELSE ReturnSuccess(task, SequentialResult(results))
    /\ UNCHANGED run
    /\ UNCHANGED others

\* The loop is exhausted.
SeqDone ==
    /\ pc = "sequential"
    /\ idx > Len(task.agent_sequence)
    /\ ReturnSuccess(task, SequentialResult(results))
    /\ UNCHANGED run
    /\ UNCHANGED others

SeqAgentReturns_NoBreak(r) ==
    /\ pc = "seq_await"
    /\ elapsed < task.timeout
    /\ results' = Append(results, r)
    /\ ctx' = [ctx EXCEPT !.previous_results = Some(results')]
    /\ task_context' = IF Truthy(task.context) THEN ctx' ELSE task_context
    /\ idx' = idx + 1
    /\ pc' = "sequential"
    /\ UNCHANGED <<execution_history, envelope, task, futs, elapsed, clock,
                   invoked, timedOut, hist0>>
    /\ UNCHANGED others

SeqAgentReturns_LastOnly(r) ==
    /\ pc = "seq_await"
    /\ elapsed < task.timeout
    /\ results' = Append(results, r)
    /\ ctx' = [ctx EXCEPT !.previous_results = Some(<<r>>)]
    /\ task_context' = IF Truthy(task.context) THEN ctx' ELSE task_context
    /\ IF ~r.success
       THEN /\ ReturnSuccess(task, SequentialResult(results'))
            /\ UNCHANGED idx
       ELSE /\ idx' = idx + 1
            /\ pc' = "sequential"
            /\ UNCHANGED <<execution_history, envelope>>
    /\ UNCHANGED <<task, futs, elapsed, clock, invoked, timedOut, hist0>>
    /\ UNCHANGED others

\* The awaited agent returns r: append it, and break when it failed.
SeqAgentReturns(r) ==
    /\ pc = "seq_await"
    /\ elapsed < task.timeout
    /\ results' = Append(results, r)
    /\ ctx' = [ctx EXCEPT !.previous_results = Some(results')]
    /\ task_context' = IF Truthy(task.context) THEN ctx' ELSE task_context
    /\ IF ~r.success
       THEN /\ ReturnSuccess(task, SequentialResult(results'))
            /\ UNCHANGED idx
       ELSE /\ idx' = idx + 1
            /\ pc' = "sequential"
            /\ UNCHANGED <<execution_history, envelope>>
    /\ UNCHANGED <<task, futs, elapsed, clock, invoked, timedOut, hist0>>
    /\ UNCHANGED others

\* The awaited agent raises: nothing in _execute_sequential catches it.
SeqAgentRaises(exc) ==
    /\ pc = "seq_await"
    /\ elapsed < task.timeout
    /\ RaiseInTask(exc)
    /\ UNCHANGED run
    /\ UNCHANGED others

SeqTimeout_NextAgent ==
    /\ pc = "seq_await"
    /\ elapsed = task.timeout
    /\ timedOut' = TRUE
    /\ idx' = idx + 1
    /\ pc' = "sequential"
    /\ UNCHANGED <<execution_history, envelope, task, results, futs, elapsed,
                   clock, invoked, hist0>>
    /\ UNCHANGED others
    /\ UNCHANGED <<ctx, task_context>>

\* The timer of wait_for fires: the agent is cancelled, TimeoutError is raised.
SeqTimeout ==
    /\ pc = "seq_await"
    /\ elapsed = task.timeout
    /\ timedOut' = TRUE
    /\ RaiseInTask(TimeoutError)
    /\ UNCHANGED <<task, idx, results, futs, elapsed, clock, invoked, hist0>>
    /\ UNCHANGED others
    /\ UNCHANGED <<ctx, task_context>>

----------------------------------------------------------------------------
\* _execute_parallel

Pending == [state |-> "pending", value |-> None]
Returned(r) == [state |-> "returned", value |-> r]
Raised(exc) == [state |-> "raised", value |-> exc]

\* The entry of processed_results for the outcome at position k.
Processed(out, k) ==
    IF out.state = "raised"
    THEN [success |-> FALSE, agent |-> task.agent_sequence[k], error |-> out.value.msg]
    ELSE out.value

RECURSIVE ProcessResults(_, _)
ProcessResults_DropExceptions(outs, n) ==
    IF n = 0 THEN <<>>
    ELSE IF outs[n].state = "raised"
         THEN ProcessResults(outs, n - 1)
         ELSE Append(ProcessResults(outs, n - 1), Processed(outs[n], n))

ProcessResults(outs, n) ==
    IF n = 0 THEN <<>>
    ELSE Append(ProcessResults(outs, n - 1), Processed(outs[n], n))

RECURSIVE CountSuccess(_)
CountSuccess(rs) ==
    IF rs = <<>> THEN 0
    ELSE CountSuccess(SubSeq(rs, 1, Len(rs) - 1)) + (IF Last(rs).success THEN 1 ELSE 0)

ParallelResult_SeqTag(rs) ==
    [mode |-> "sequential", results |-> rs, successful_agents |-> CountSuccess(rs)]

ParallelResult(rs) ==
    [mode |-> "parallel", results |-> rs, successful_agents |-> CountSuccess(rs)]

ParInvoke_NoContext ==
    /\ pc = "parallel"
    /\ invoked' = [k \in 1..Len(task.agent_sequence) |-> Call(k, Lit(task.description), None)]
    /\ futs' = [k \in 1..Len(task.agent_sequence) |-> Pending]
    /\ elapsed' = 0
    /\ pc' = "par_await"
    /\ UNCHANGED <<execution_history, task, idx, results, clock, envelope,
                   timedOut, hist0>>
    /\ UNCHANGED others
    /\ UNCHANGED <<ctx, task_context>>

\* All coroutines are created and gathered; one wait_for covers the gather.
ParInvoke ==
    /\ pc = "parallel"
    /\ invoked' = [k \in 1..Len(task.agent_sequence) |-> Call(k, Lit(task.description), task_context)]
    /\ futs' = [k \in 1..Len(task.agent_sequence) |-> Pending]
    /\ elapsed' = 0
    /\ pc' = "par_await"
    /\ UNCHANGED <<execution_history, task, idx, results, clock, envelope,
                   timedOut, hist0>>
    /\ UNCHANGED others
    /\ UNCHANGED <<ctx, task_context>>

ParAgentReturns(k, r) ==
    /\ pc = "par_await"
    /\ futs[k].state = "pending"
    /\ elapsed < task.timeout
    /\ futs' = [futs EXCEPT ![k] = Returned(r)]
    /\ UNCHANGED <<execution_history, pc, task, idx, results, elapsed, clock,
                   invoked, envelope, timedOut, hist0>>
    /\ UNCHANGED others
    /\ UNCHANGED <<ctx, task_context>>

ParAgentRaises_Propagated(k, exc) ==
    /\ pc = "par_await"
    /\ futs[k].state = "pending"
    /\ elapsed < task.timeout
    /\ futs' = [futs EXCEPT ![k] = Raised(exc)]
    /\ RaiseInTask(exc)
    /\ UNCHANGED <<task, idx, results, elapsed, clock, invoked, timedOut, hist0>>
    /\ UNCHANGED others
    /\ UNCHANGED <<ctx, task_context>>

\* return_exceptions=True: the exception is the outcome at position k.
ParAgentRaises(k, exc) ==
    /\ pc = "par_await"
    /\ futs[k].state = "pending"
    /\ elapsed < task.timeout
    /\ futs' = [futs EXCEPT ![k] = Raised(exc)]
    /\ UNCHANGED <<execution_history, pc, task, idx, results, elapsed, clock,
                   invoked, envelope, timedOut, hist0>>
    /\ UNCHANGED others
    /\ UNCHANGED <<ctx, task_context>>

\* Every gathered coroutine is done: wait_for returns the list of outcomes.
ParGathered ==
    /\ pc = "par_await"
    /\ \A k \in DOMAIN futs : futs[k].state # "pending"
    /\ results' = ProcessResults(futs, Len(futs))
    /\ ReturnSuccess(task, ParallelResult(results'))
    /\ UNCHANGED <<task, idx, futs, elapsed, clock, invoked, timedOut, hist0>>
    /\ UNCHANGED others
    /\ UNCHANGED <<ctx, task_context>>

\* The timer fires while some coroutine is still running.
ParTimeout ==
    /\ pc = "par_await"
    /\ \E k \in DOMAIN futs : futs[k].state = "pending"
    /\ elapsed = task.timeout
    /\ timedOut' = TRUE
    /\ RaiseInTask(TimeoutError)
    /\ UNCHANGED <<task, idx, results, futs, elapsed, clock, invoked, hist0>>
    /\ UNCHANGED others
    /\ UNCHANGED <<ctx, task_context>>

----------------------------------------------------------------------------
\* _execute_conditional

EvaluateCondition_Always(previous_results) == TRUE

EvaluateCondition_AnySucceeded(previous_results) ==
    \/ previous_results = <<>>
    \/ \E k \in DOMAIN previous_results : previous_results[k].success

\* _evaluate_condition
EvaluateCondition(previous_results) ==
    IF previous_results = <<>> THEN TRUE ELSE Last(previous_results).success

ConditionalResult_CountAll(rs) ==
    [mode |-> "conditional", results |-> rs,
     executed_agents |-> Len(task.agent_sequence)]

ConditionalResult(rs) ==
    [mode |-> "conditional", results |-> rs, executed_agents |-> Len(rs)]

CondInvoke ==
    /\ pc = "conditional"
    /\ idx <= Len(task.agent_sequence)
    /\ EvaluateCondition(results)
    /\ invoked' = Append(invoked, Call(idx, Lit(task.description), ctx))
    /\ elapsed' = 0
    /\ pc' = "cond_await"
    /\ UNCHANGED <<execution_history, task, idx, results, futs, clock, envelope,
                   timedOut, hist0>>
    /\ UNCHANGED others
    /\ UNCHANGED <<ctx, task_context>>

CondSkip ==
    /\ pc = "conditional"
    /\ idx <= Len(task.agent_sequence)
    /\ ~EvaluateCondition(results)
    /\ idx' = idx + 1
    /\ UNCHANGED <<execution_history, pc, task, results, futs, elapsed, clock,
                   invoked, envelope, timedOut, hist0>>
    /\ UNCHANGED others
    /\ UNCHANGED <<ctx, task_context>>

CondDone ==
    /\ pc = "conditional"
    /\ idx > Len(task.agent_sequence)
    /\ ReturnSuccess(task, ConditionalResult(results))
    /\ UNCHANGED run
    /\ UNCHANGED others

CondAgentReturns(r) ==
    /\ pc = "cond_await"
    /\ elapsed < task.timeout
    /\ results' = Append(results, r)
    /\ ctx' = [ctx EXCEPT !.results = Some(results')]
    /\ task_context' = IF Truthy(task.context) THEN ctx' ELSE task_context
    /\ idx' = idx + 1
    /\ pc' = "conditional"
    /\ UNCHANGED <<execution_history, task, futs, elapsed, clock, invoked,
                   envelope, timedOut, hist0>>
    /\ UNCHANGED others

CondAgentRaises(exc) ==
    /\ pc = "cond_await"
    /\ elapsed < task.timeout
    /\ RaiseInTask(exc)
    /\ UNCHANGED run
    /\ UNCHANGED others

CondTimeout_NoDeadline ==
    /\ pc = "cond_await"
    /\ elapsed = task.timeout
    /\ UNCHANGED vars

\* The timer of wait_for fires: the agent is cancelled, TimeoutError is raised.
CondTimeout ==
    /\ pc = "cond_await"
    /\ elapsed = task.timeout
    /\ timedOut' = TRUE
    /\ RaiseInTask(TimeoutError)
    /\ UNCHANGED <<task, idx, results, futs, elapsed, clock, invoked, hist0>>
    /\ UNCHANGED others
    /\ UNCHANGED <<ctx, task_context>>

----------------------------------------------------------------------------
\* The registry: add_agent, remove_agent, agent_handoff, get_stats.

\* A dict is the sequence of its items in insertion order.
Keys(d) == [k \in DOMAIN d |-> d[k].key]
Has(d, key) == \E k \in DOMAIN d : d[k].key = key
Get(d, key) == d[CHOOSE k \in DOMAIN d : d[k].key = key].value
Without(d, key) == SelectSeq(d, LAMBDA item : item.key # key)

\* d[key] = value: an existing key keeps its place.
SetItem(d, key, value) ==
    IF Has(d, key)
    THEN [k \in DOMAIN d |->
            IF d[k].key = key THEN [key |-> key, value |-> value] ELSE d[k]]
    ELSE Append(d, [key |-> key, value |-> value])

\* A call of add_agent or remove_agent: the agent the name had before it,
\* and the exception the call raised.
Op(op, name, previous, raised) ==
    [op |-> op, name |-> name, previous |-> previous, raised |-> raised]

Lookup(d, key) == IF Has(d, key) THEN Get(d, key) ELSE None

KeyError(key) == [kind |-> "KeyError", msg |-> key]

AddAgent_SetDefault(agent) ==
    /\ hpc = "idle"
    /\ agents' = IF Has(agents, agent.name) THEN agents
                 ELSE SetItem(agents, agent.name, agent)
    /\ latest' = [latest EXCEPT ![agent.name] = agent.id]
    /\ lastOp' = Op("add_agent", agent.name, Lookup(agents, agent.name), None)
    /\ stats' = None
    /\ UNCHANGED <<hpc, handoff, hcalls, handoffOut, successes>>
    /\ UNCHANGED <<execution_history, pc, envelope, run, agentv, beside>>

AddAgent(agent) ==
    /\ hpc = "idle"
    /\ agents' = SetItem(agents, agent.name, agent)
    /\ latest' = [latest EXCEPT ![agent.name] = agent.id]
    /\ lastOp' = Op("add_agent", agent.name, Lookup(agents, agent.name), None)
    /\ stats' = None
    /\ UNCHANGED <<hpc, handoff, hcalls, handoffOut, successes>>
    /\ UNCHANGED <<execution_history, pc, envelope, run, agentv, beside>>

RemoveAgent_Del(agent_name) ==
    /\ hpc = "idle"
    /\ agents' = Without(agents, agent_name)
    /\ latest' = [latest EXCEPT ![agent_name] = 0]
    /\ lastOp' = Op("remove_agent", agent_name, Lookup(agents, agent_name),
                    IF Has(agents, agent_name) THEN None ELSE KeyError(agent_name))
    /\ stats' = None
    /\ UNCHANGED <<hpc, handoff, hcalls, handoffOut, successes>>
    /\ UNCHANGED <<execution_history, pc, envelope, run, agentv, beside>>

RemoveAgent(agent_name) ==
    /\ hpc = "idle"
    /\ agents' = IF Has(agents, agent_name) THEN Without(agents, agent_name)
                 ELSE agents
    /\ latest' = [latest EXCEPT ![agent_name] = 0]
    /\ lastOp' = Op("remove_agent", agent_name, Lookup(agents, agent_name), None)
    /\ stats' = None
    /\ UNCHANGED <<hpc, handoff, hcalls, handoffOut, successes>>
    /\ UNCHANGED <<execution_history, pc, envelope, run, agentv, beside>>

GetStatsResult ==
    [total_agents |-> Len(agents),
     agents |-> Keys(agents),
     total_executions |-> Len(execution_history),
     max_concurrent_agents |-> max_concurrent_agents]

GetStats ==
    /\ pc = "idle"
    /\ hpc = "idle"
    /\ stats' = GetStatsResult
    /\ UNCHANGED <<agents, latest, lastOp, hpc, handoff, hcalls, handoffOut,
                   successes>>
    /\ UNCHANGED <<execution_history, pc, envelope, run, agentv, beside>>

\* The context dicts handed to agent_handoff.
Contexts ==
    {[topic |-> "draft"], [topic |-> "draft", handoff_task |-> "Review the draft"]}

NotFound(to_agent) ==
    [kind |-> "ValueError",
     msg |-> <<"Agent '", to_agent, "' not found in orchestrator">>]

HandoffTask_Default(context) == "Continue the work"

\* context.get("handoff_task", "Continue the work")
HandoffTask(context) ==
    IF "handoff_task" \in DOMAIN context
    THEN context.handoff_task
    ELSE "Continue the work"

HandoffCall(agent, context) ==
    [agent |-> agent, task |-> HandoffTask(context), context |-> context,
     out |-> Pending]

\* The call up to its await, or to its raise.  The record of the call keeps
\* the registry as it was when the call was made.
AgentHandoff(from_agent, to_agent, context) ==
    /\ pc = "idle"
    /\ hpc = "idle"
    /\ handoff' = [from_agent |-> from_agent, to_agent |-> to_agent,
                   context |-> context, agents0 |-> agents]
    /\ IF ~Has(agents, to_agent)
       THEN /\ hpc' = "raised"
            /\ handoffOut' = NotFound(to_agent)
            /\ hcalls' = <<>>
       ELSE /\ hpc' = "await"
            /\ handoffOut' = None
            /\ hcalls' = <<HandoffCall(Get(agents, to_agent), context)>>
    /\ stats' = None
    /\ UNCHANGED <<agents, latest, lastOp, successes>>
    /\ UNCHANGED <<execution_history, pc, envelope, run, agentv, beside>>

HandoffAgentReturns_Recorded(r) ==
    /\ hpc = "await"
    /\ hcalls' = [hcalls EXCEPT ![1].out = Returned(r)]
    /\ handoffOut' = r
    /\ hpc' = "returned"
    /\ execution_history' = Append(execution_history, [handoff |-> r])
    /\ UNCHANGED <<agents, latest, lastOp, handoff, stats, successes>>
    /\ UNCHANGED <<pc, envelope, run, agentv, beside>>

\* target_agent.execute returns: agent_handoff returns what it returned.
HandoffAgentReturns(r) ==
    /\ hpc = "await"
    /\ hcalls' = [hcalls EXCEPT ![1].out = Returned(r)]
    /\ handoffOut' = r
    /\ hpc' = "returned"
    /\ UNCHANGED <<agents, latest, lastOp, handoff, stats, successes>>
    /\ UNCHANGED <<execution_history, pc, envelope, run, agentv, beside>>

\* target_agent.execute raises: nothing in agent_handoff catches it.
HandoffAgentRaises(exc) ==
    /\ hpc = "await"
    /\ hcalls' = [hcalls EXCEPT ![1].out = Raised(exc)]
    /\ handoffOut' = exc
    /\ hpc' = "raised"
    /\ UNCHANGED <<agents, latest, lastOp, handoff, stats, successes>>
    /\ UNCHANGED <<execution_history, pc, envelope, run, agentv, beside>>

\* The caller has the result or the exception of agent_handoff.
HandoffReturn ==
    /\ hpc \in {"returned", "raised"}
    /\ hpc' = "idle"
    /\ handoff' = None
    /\ hcalls' = <<>>
    /\ handoffOut' = None
    /\ UNCHANGED <<agents, latest, lastOp, stats, successes>>
    /\ UNCHANGED <<execution_history, pc, envelope, run, agentv, beside>>

\* What the agent awaited by agent_handoff can return.
HandoffResults ==
    IF hpc = "await" THEN AgentResults(hcalls[1].agent.name) ELSE {}

\* The tasks run while the registry is in use: Sequential or of an unknown
\* mode, with one agent at most.
MaxRecords == 2

ShortTasks ==
    {t \in Tasks : /\ Len(t.agent_sequence) <= 1
                   /\ t.execution_mode \in {"sequential", OtherMode}}

ExecuteShortTask_Registered(t) ==
    /\ pc = "idle"
    /\ hpc = "idle"
    /\ Len(execution_history) < MaxRecords
    /\ task' = t
    /\ hist0' = execution_history
    /\ task_context' = t.context
    /\ ctx' = IF t.execution_mode \in {"sequential", "conditional"}
              THEN LocalContext(t) ELSE None
    /\ UNCHANGED <<idx, results, futs, elapsed, clock, invoked, timedOut>>
    /\ IF /\ t.execution_mode \in Modes
          /\ \A k \in DOMAIN t.agent_sequence : Has(agents, t.agent_sequence[k])
       THEN /\ pc' = t.execution_mode
            /\ UNCHANGED <<execution_history, envelope>>
       ELSE RaiseInTask(UnknownMode(t.execution_mode))
    /\ stats' = None
    /\ UNCHANGED <<agents, latest, lastOp, hpc, handoff, hcalls, handoffOut,
                   successes, agentv, beside>>

\* execute_task, called between the registry calls.
ExecuteShortTask(t) ==
    /\ pc = "idle"
    /\ hpc = "idle"
    /\ Len(execution_history) < MaxRecords
    /\ task' = t
    /\ hist0' = execution_history
    /\ task_context' = t.context
    /\ ctx' = IF t.execution_mode \in {"sequential", "conditional"}
              THEN LocalContext(t) ELSE None
    /\ UNCHANGED <<idx, results, futs, elapsed, clock, invoked, timedOut>>
    /\ IF t.execution_mode \in Modes
       THEN /\ pc' = t.execution_mode
            /\ UNCHANGED <<execution_history, envelope>>
       ELSE RaiseInTask(UnknownMode(t.execution_mode))
    /\ stats' = None
    /\ UNCHANGED <<agents, latest, lastOp, hpc, handoff, hcalls, handoffOut,
                   successes, agentv, beside>>

----------------------------------------------------------------------------
\* agent.Agent: __init__, execute and _execute_tools.  The memory system, the
\* reasoner and the tools are opaque: each call of them returns or raises.
\* The confidence of a reasoning result and the timestamps are left out.

MaxToolCalls == 2

AgentName == "TestAgent"

\* self.tools, by name, and the names a tool call can ask for.
AgentTools == {"web_search", "calculator"}
ToolNames == AgentTools \cup {"unknown"}

ToolCallLists ==
    UNION {[1..n -> [tool : ToolNames]] : n \in 0..MaxToolCalls}

StepLists == {<<>>, <<[type |-> "synthesis", output |-> "answer"]>>}

\* What self.reasoner.reason can return; the dict has no key tool_calls when
\* it comes from ChainOfThoughtReasoner.reason.
ReasoningResults ==
    [steps : StepLists,
     requires_tools : BOOLEAN,
     tool_calls : {Some(calls) : calls \in ToolCallLists} \cup {None},
     tool_results : {None}]

BackendError == [kind |-> "Exception", msg |-> "backend failed"]
ToolError == [kind |-> "Exception", msg |-> "tool failed"]
MissingToolCalls == [kind |-> "KeyError", msg |-> "'tool_calls'"]

ToolValue(tool) == [output |-> tool]

ToolSuccess(tool) == [tool |-> tool, success |-> TRUE, result |-> ToolValue(tool)]
ToolFailure(tool, exc) == [tool |-> tool, success |-> FALSE, error |-> exc.msg]

\* _generate_response
GenerateResponse(rr) ==
    [content |-> IF rr.steps = <<>> THEN "" ELSE Last(rr.steps).output,
     reasoning_steps |-> Len(rr.steps)]

AgentExecutionRecord(t, resp, rr) ==
    [task |-> t, response |-> resp, reasoning_steps |-> rr.steps]

AgentCaught_NotLookup(exc) == exc.kind = "Exception"

\* except Exception
AgentCaught(exc) == IsInstance(exc, "Exception")

\* An exception leaves a step of the try body of execute.
AgentRaise(exc, step) ==
    /\ afailed' = [step |-> step, exc |-> exc]
    /\ IF AgentCaught(exc)
       THEN /\ aresult' = [success |-> FALSE, error |-> exc.msg,
                           agent |-> aconfig.name]
            /\ apc' = "returned"
       ELSE /\ aresult' = None
            /\ apc' = "raised"

AgentSucceed_NoRecord(resp) ==
    /\ UNCHANGED agent_history
    /\ aresult' = [success |-> TRUE, response |-> resp,
                   reasoning |-> reasoning_result, agent |-> aconfig.name]
    /\ apc' = "returned"

\* The end of the try body.
AgentSucceed(resp) ==
    /\ agent_history' =
          Append(agent_history, AgentExecutionRecord(atask, resp, reasoning_result))
    /\ aresult' = [success |-> TRUE, response |-> resp,
                   reasoning |-> reasoning_result, agent |-> aconfig.name]
    /\ apc' = "returned"

\* Agent(config, memory_system=...)
NewAgent_KeepMemory(memory_enabled, memory_given) ==
    /\ apc = "none"
    /\ aconfig' = [name |-> AgentName, memory_enabled |-> memory_enabled]
    /\ memory_system' = memory_given
    /\ apc' = "idle"
    /\ UNCHANGED <<agent_history, atask, reasoning_result, tidx, tool_results,
                   response, aresult, memcalls, toolcalls, afailed>>
    /\ memory_passed' = memory_given
    /\ UNCHANGED <<orch, asuccesses, astats>>

NewAgent(memory_enabled, memory_given) ==
    /\ apc = "none"
    /\ aconfig' = [name |-> AgentName, memory_enabled |-> memory_enabled]
    /\ memory_system' = (memory_given /\ memory_enabled)
    /\ apc' = "idle"
    /\ UNCHANGED <<agent_history, atask, reasoning_result, tidx, tool_results,
                   response, aresult, memcalls, toolcalls, afailed>>
    /\ memory_passed' = memory_given
    /\ UNCHANGED <<orch, asuccesses, astats>>

\* execute, up to its first await.
AgentExecute(t) ==
    /\ apc = "idle"
    /\ Len(agent_history) < MaxRecords
    /\ atask' = t
    /\ IF memory_system
       THEN apc' = "retrieve" /\ memcalls' = <<"retrieve">>
       ELSE apc' = "reason" /\ memcalls' = <<>>
    /\ UNCHANGED <<aconfig, memory_system, agent_history, reasoning_result, tidx,
                   tool_results, response, aresult, toolcalls, afailed>>
    /\ astats' = None
    /\ UNCHANGED <<orch, asuccesses, memory_passed>>

\* memory_system.retrieve returns.
Retrieved ==
    /\ apc = "retrieve"
    /\ apc' = "reason"
    /\ UNCHANGED <<aconfig, memory_system, agent_history, atask, reasoning_result,
                   tidx, tool_results, response, aresult, memcalls, toolcalls,
                   afailed>>
    /\ UNCHANGED <<orch, asuccesses, astats, memory_passed>>

\* reasoner.reason returns, and the tools are asked for or not.
Reasoned(rr) ==
    /\ apc = "reason"
    /\ reasoning_result' = rr
    /\ IF rr.requires_tools
       THEN IF rr.tool_calls = None
            THEN AgentRaise(MissingToolCalls, "tools")
            ELSE apc' = "tools" /\ UNCHANGED <<aresult, afailed>>
       ELSE apc' = "respond" /\ UNCHANGED <<aresult, afailed>>
    /\ UNCHANGED <<aconfig, memory_system, agent_history, atask, tidx,
                   tool_results, response, memcalls, toolcalls>>
    /\ UNCHANGED <<orch, asuccesses, astats, memory_passed>>

\* The tool_call the loop of _execute_tools is at.
ToolCall == reasoning_result.tool_calls.some[tidx]

InToolLoop ==
    /\ apc = "tools"
    /\ tidx <= Len(reasoning_result.tool_calls.some)

\* No tool of self.tools has the name: the call is passed over.
ToolSkip ==
    /\ InToolLoop
    /\ ToolCall.tool \notin AgentTools
    /\ tidx' = tidx + 1
    /\ UNCHANGED <<aconfig, memory_system, agent_history, apc, atask,
                   reasoning_result, tool_results, response, aresult, memcalls,
                   toolcalls, afailed>>
    /\ UNCHANGED <<orch, asuccesses, astats, memory_passed>>

\* tool.execute returns.
ToolReturns ==
    /\ InToolLoop
    /\ ToolCall.tool \in AgentTools
    /\ toolcalls' = Append(toolcalls, [pos |-> tidx, raised |-> FALSE])
    /\ tool_results' = Append(tool_results, ToolSuccess(ToolCall.tool))
    /\ tidx' = tidx + 1
    /\ UNCHANGED <<aconfig, memory_system, agent_history, apc, atask,
                   reasoning_result, response, aresult, memcalls, afailed>>
    /\ UNCHANGED <<orch, asuccesses, astats, memory_passed>>

ToolRaises_Abort(exc) ==
    /\ InToolLoop
    /\ ToolCall.tool \in AgentTools
    /\ toolcalls' = Append(toolcalls, [pos |-> tidx, raised |-> TRUE])
    /\ aresult' = [success |-> FALSE, error |-> exc.msg, agent |-> aconfig.name]
    /\ apc' = "returned"
    /\ UNCHANGED <<aconfig, memory_system, agent_history, atask, tidx,
                   reasoning_result, tool_results, response, memcalls, afailed>>
    /\ UNCHANGED <<orch, asuccesses, astats, memory_passed>>

\* tool.execute raises: the except clause of the loop makes an entry of it.
ToolRaises(exc) ==
    /\ InToolLoop
    /\ ToolCall.tool \in AgentTools
    /\ toolcalls' = Append(toolcalls, [pos |-> tidx, raised |-> TRUE])
    /\ tool_results' = Append(tool_results, ToolFailure(ToolCall.tool, exc))
    /\ tidx' = tidx + 1
    /\ UNCHANGED <<aconfig, memory_system, agent_history, apc, atask,
                   reasoning_result, response, aresult, memcalls, afailed>>
    /\ UNCHANGED <<orch, asuccesses, astats, memory_passed>>

\* _execute_tools returns its results.
ToolsDone ==
    /\ apc = "tools"
    /\ tidx > Len(reasoning_result.tool_calls.some)
    /\ reasoning_result' = [reasoning_result EXCEPT !.tool_results = Some(tool_results)]
    /\ apc' = "respond"
    /\ UNCHANGED <<aconfig, memory_system, agent_history, atask, tidx,
                   tool_results, response, aresult, memcalls, toolcalls, afailed>>
    /\ UNCHANGED <<orch, asuccesses, astats, memory_passed>>

\* _generate_response returns; without a memory system the try body ends.
Responded ==
    /\ apc = "respond"
    /\ response' = GenerateResponse(reasoning_result)
    /\ IF memory_system
       THEN /\ apc' = "store"
            /\ memcalls' = Append(memcalls, "store")
            /\ UNCHANGED <<agent_history, aresult>>
       ELSE /\ AgentSucceed(GenerateResponse(reasoning_result))
            /\ UNCHANGED memcalls
    /\ UNCHANGED <<aconfig, memory_system, atask, reasoning_result, tidx,
                   tool_results, toolcalls, afailed>>
    /\ UNCHANGED <<orch, asuccesses, astats, memory_passed>>

\* memory_system.store returns.
Stored ==
    /\ apc = "store"
    /\ AgentSucceed(response)
    /\ UNCHANGED <<aconfig, memory_system, atask, reasoning_result, tidx,
                   tool_results, response, memcalls, toolcalls, afailed>>
    /\ UNCHANGED <<orch, asuccesses, astats, memory_passed>>

\* The awaited retrieve, reason, _generate_response or store raises.
AgentStepRaises(exc) ==
    /\ apc \in {"retrieve", "reason", "respond", "store"}
    /\ AgentRaise(exc, apc)
    /\ UNCHANGED <<aconfig, memory_system, agent_history, atask, reasoning_result,
                   tidx, tool_results, response, memcalls, toolcalls>>
    /\ UNCHANGED <<orch, asuccesses, astats, memory_passed>>

\* The caller has the result; the locals of the call are gone.
AgentReturn ==
    /\ apc = "returned"
    /\ apc' = "idle"
    /\ atask' = None
    /\ reasoning_result' = None
    /\ tidx' = 1
    /\ tool_results' = <<>>
    /\ response' = None
    /\ aresult' = None
    /\ memcalls' = <<>>
    /\ toolcalls' = <<>>
    /\ afailed' = None
    /\ UNCHANGED <<aconfig, memory_system, agent_history>>
    /\ asuccesses' = IF aresult.success THEN asuccesses + 1 ELSE asuccesses
    /\ UNCHANGED <<orch, astats, memory_passed>>

\* Agent.get_stats (role and created_at are left out).
AgentStats ==
    [name |-> aconfig.name,
     executions |-> Len(agent_history),
     memory_enabled |-> aconfig.memory_enabled,
     tools_available |-> Cardinality(AgentTools)]

AgentGetStats ==
    /\ apc = "idle"
    /\ astats' = AgentStats
    /\ UNCHANGED <<aconfig, memory_system, agent_history, apc, atask,
                   reasoning_result, tidx, tool_results, response, aresult,
                   memcalls, toolcalls, afailed, asuccesses, memory_passed>>
    /\ UNCHANGED orch

NextAgent ==
    \/ AgentGetStats
    \/ \E memory_enabled, memory_given \in BOOLEAN :
          NewAgent(memory_enabled, memory_given)
    \/ \E t \in Descriptions : AgentExecute(t)
    \/ Retrieved
    \/ \E rr \in ReasoningResults : Reasoned(rr)
    \/ ToolSkip
    \/ ToolReturns
    \/ ToolRaises(ToolError)
    \/ ToolsDone
    \/ Responded
    \/ Stored
    \/ AgentStepRaises(BackendError)
    \/ AgentReturn

SpecAgent == Init /\ [][NextAgent]_vars

----------------------------------------------------------------------------
\* What the agent being awaited by the loop may return.
AwaitedResults ==
    IF pc \in {"seq_await", "cond_await"}
    THEN AgentResults(task.agent_sequence[idx])
    ELSE {}

Next ==
    \/ \E t \in Tasks : ExecuteTask(t)
    \/ Return
    \/ Tick
    \/ SeqInvoke
    \/ SeqDone
    \/ \E r \in AwaitedResults : SeqAgentReturns(r)
    \/ \E exc \in AgentExceptions : SeqAgentRaises(exc)
    \/ SeqTimeout
    \/ ParInvoke
    \/ \E k \in DOMAIN futs : \E r \in AgentResults(task.agent_sequence[k]) : ParAgentReturns(k, r)
    \/ \E k \in DOMAIN futs : \E exc \in GatheredExceptions : ParAgentRaises(k, exc)
    \/ ParGathered
    \/ ParTimeout
    \/ CondInvoke
    \/ CondSkip
    \/ CondDone
    \/ \E r \in AwaitedResults : CondAgentReturns(r)
    \/ \E exc \in AgentExceptions : CondAgentRaises(exc)
    \/ CondTimeout

Spec == Init /\ [][Next]_vars

\* The steps the event loop takes by itself: time passes while a wait_for
\* is pending, its timer fires, and a strategy that is not suspended runs on.
\* An agent need never return or raise.
Scheduled ==
    \/ Tick
    \/ SeqInvoke \/ SeqDone \/ SeqTimeout
    \/ ParInvoke \/ ParGathered \/ ParTimeout
    \/ CondInvoke \/ CondSkip \/ CondDone \/ CondTimeout

SpecLive == Spec /\ WF_vars(Scheduled)

\* The same calls on an orchestrator made with any max_concurrent_agents.
SpecConcurrency == InitConcurrency /\ [][Next]_vars

NextRegistry ==
    \/ \E agent \in Agents : AddAgent(agent)
    \/ \E agent_name \in RegistryNames : RemoveAgent(agent_name)
    \/ GetStats
    \/ \E from_agent, to_agent \in RegistryNames : \E context \in Contexts :
          AgentHandoff(from_agent, to_agent, context)
    \/ \E r \in HandoffResults : HandoffAgentReturns(r)
    \/ \E exc \in AgentExceptions : HandoffAgentRaises(exc)
    \/ HandoffReturn
    \/ \E t \in ShortTasks : ExecuteShortTask(t)
    \/ Return
    \/ Tick
    \/ SeqInvoke
    \/ SeqDone
    \/ \E r \in AwaitedResults : SeqAgentReturns(r)
    \/ \E exc \in AgentExceptions : SeqAgentRaises(exc)
    \/ SeqTimeout

SpecRegistry == Init /\ [][NextRegistry]_vars

NextContext ==
    \/ \E t \in ContextTasks : ExecuteContextTask(t)
    \/ Return
    \/ Tick
    \/ SeqInvoke
    \/ SeqDone
    \/ \E r \in AwaitedResults : SeqAgentReturns(r)
    \/ \E exc \in AgentExceptions : SeqAgentRaises(exc)
    \/ SeqTimeout
    \/ ParInvoke
    \/ \E k \in DOMAIN futs : \E r \in AgentResults(task.agent_sequence[k]) : ParAgentReturns(k, r)
    \/ \E k \in DOMAIN futs : \E exc \in GatheredExceptions : ParAgentRaises(k, exc)
    \/ ParGathered
    \/ ParTimeout
    \/ CondInvoke
    \/ CondSkip
    \/ CondDone
    \/ \E r \in AwaitedResults : CondAgentReturns(r)
    \/ \E exc \in AgentExceptions : CondAgentRaises(exc)
    \/ CondTimeout

SpecContext == Init /\ [][NextContext]_vars

----------------------------------------------------------------------------
\* class ConversationMemory (memory.py)

MaxMessages == 3

Roles == {"user", "assistant"}

\* The dict add_message appends (without its timestamp); the content of the
\* k-th add is "Message k", counted from 0.
Message(role, k) == [role |-> role, content |-> k]

\* The Python slice s[start:].
SliceFrom(s, start) ==
    LET n == Len(s)
        from == IF start < 0 THEN (IF n + start < 0 THEN 0 ELSE n + start)
                             ELSE (IF start > n THEN n ELSE start)
    IN  [k \in 1..(n - from) |-> s[from + k]]

\* ConversationMemory(max_messages)
NewConversationMemory(max_messages) ==
    /\ conv = None
    /\ conv' = [messages |-> <<>>, max_messages |-> max_messages]
    /\ UNCHANGED added
    /\ UNCHANGED notMemory

\* add_message(role, content): append, then trim.
AddMessage(role) ==
    /\ conv # None
    /\ Len(added) < MaxMessages + 2
    /\ LET msg == Message(role, Len(added))
           appended == Append(conv.messages, msg)
       IN  /\ conv' = [conv EXCEPT !.messages =
                          IF Len(appended) > conv.max_messages
                          THEN SliceFrom(appended, 0 - conv.max_messages)
                          ELSE appended]
           /\ added' = Append(added, msg)
    /\ UNCHANGED notMemory

NextMemory ==
    \/ \E m \in 0..MaxMessages : NewConversationMemory(m)
    \/ \E role \in Roles : AddMessage(role)

SpecMemory == Init /\ [][NextMemory]_vars

----------------------------------------------------------------------------
\* _execute_sequential and _execute_conditional run on one agent sequence
\* whose agents return what a script says, whatever input they are given.

\* One outcome per position: TRUE for success, FALSE for failure.
Scripts(agent_sequence) == [DOMAIN agent_sequence -> BOOLEAN]

\* What the agent at position k returns under the script.
Scripted(agent_sequence, outcomes, k) ==
    IF outcomes[k] THEN AgentSuccess(agent_sequence[k])
                   ELSE AgentFailure(agent_sequence[k])

\* The locals of a strategy at the head of its loop.
LoopStart == [idx |-> 1, results |-> <<>>, invoked |-> <<>>, returned |-> FALSE]

\* The two strategies are called with the same task and script.
TwinStart(agent_sequence, outcomes) ==
    /\ twin = None
    /\ twin' = [agent_sequence |-> agent_sequence, outcomes |-> outcomes,
                sequential |-> LoopStart, conditional |-> LoopStart]
    /\ UNCHANGED notTwin

TwinSeqStep_NoBreak ==
    /\ twin # None
    /\ ~twin.sequential.returned
    /\ LET f == twin.sequential
       IN  twin' = [twin EXCEPT !.sequential =
              IF f.idx > Len(twin.agent_sequence)
              THEN [f EXCEPT !.returned = TRUE]
              ELSE [f EXCEPT
                      !.invoked = Append(@, f.idx),
                      !.results = Append(@, Scripted(twin.agent_sequence,
                                                     twin.outcomes, f.idx)),
                      !.idx = @ + 1]]
    /\ UNCHANGED notTwin

\* One turn of the loop of _execute_sequential: the agent runs and returns,
\* the loop breaks on a failure; or the loop is exhausted.
TwinSeqStep ==
    /\ twin # None
    /\ ~twin.sequential.returned
    /\ LET f == twin.sequential
           r == Scripted(twin.agent_sequence, twin.outcomes, f.idx)
       IN  twin' = [twin EXCEPT !.sequential =
              IF f.idx > Len(twin.agent_sequence)
              THEN [f EXCEPT !.returned = TRUE]
              ELSE [f EXCEPT
                      !.invoked = Append(@, f.idx),
                      !.results = Append(@, r),
                      !.idx = @ + 1,
                      !.returned = ~r.success]]
    /\ UNCHANGED notTwin

\* One turn of the loop of _execute_conditional: the agent is skipped, or it
\* runs and returns; or the loop is exhausted.
TwinCondStep ==
    /\ twin # None
    /\ ~twin.conditional.returned
    /\ LET f == twin.conditional
       IN  twin' = [twin EXCEPT !.conditional =
              IF f.idx > Len(twin.agent_sequence)
              THEN [f EXCEPT !.returned = TRUE]
              ELSE IF ~EvaluateCondition(f.results)
              THEN [f EXCEPT !.idx = @ + 1]
              ELSE [f EXCEPT
                      !.invoked = Append(@, f.idx),
                      !.results = Append(@, Scripted(twin.agent_sequence,
                                                     twin.outcomes, f.idx)),
                      !.idx = @ + 1]]
    /\ UNCHANGED notTwin

NextTwin ==
    \/ \E agent_sequence \in AgentSequences :
          \E outcomes \in Scripts(agent_sequence) :
              TwinStart(agent_sequence, outcomes)
    \/ TwinSeqStep
    \/ TwinCondStep

SpecTwin == Init /\ [][NextTwin]_vars

----------------------------------------------------------------------------
\* Two execute_task calls interleaved at their awaits (Sequential strategy).
\* A context is a reference into heap, and the previous_results of a dict
\* holds a reference to a results list: the number of the call that owns it.

\* Sequences of one or two distinct agents, or none.
InterSequences ==
    {<<>>} \cup {<<a>> : a \in AgentIds}
           \cup {s \in {<<a, b>> : a \in AgentIds, b \in AgentIds} : s[1] # s[2]}

CallDescriptions == <<"first task", "second task">>

\* class Task with context a reference to a caller's dict, or None.
InterTasks ==
    [description : {CallDescriptions[c] : c \in CallIds},
     agent_sequence : InterSequences,
     execution_mode : {"sequential"},
     context : {None} \cup {Some(r) : r \in CallerDicts},
     timeout : {MaxTimeout}]

\* bool(task.context): None and the empty dict are falsy.
TruthyRef(ref) == ref # None /\ Truthy(heap[ref.some])

\* context = task.context or {}
InterContext(c, t) ==
    IF TruthyRef(t.context) THEN t.context.some ELSE LocalDict(c)

\* The frame of call c for the task t.
Frame(c, t, at, i, rs, env) ==
    [pc |-> at, task |-> t, idx |-> i, results |-> rs,
     context |-> InterContext(c, t), envelope |-> env]

\* The try body of call c ran to its end with the results rs.
InterReturnSuccess(c, t, rs) ==
    /\ execution_history' =
          Append(execution_history, ExecutionRecord(t, SequentialResult(rs)))
    /\ frames' = [frames EXCEPT ![c] =
                    Frame(c, t, "returned", Len(rs) + 1, rs,
                          SuccessEnvelope(SequentialResult(rs)))]

\* The loop of call c goes on at position i with the results rs: it awaits
\* the agent at i (the call is suspended, the other call may run), or it is
\* exhausted and execute_task returns.
InterLoop(c, t, i, rs) ==
    IF i <= Len(t.agent_sequence)
    THEN /\ frames' = [frames EXCEPT ![c] = Frame(c, t, "seq_await", i, rs, None)]
         /\ UNCHANGED execution_history
    ELSE InterReturnSuccess(c, t, rs)

\* execute_task(t) is called and runs to its first await; the two tasks are
\* two Task objects.
InterExecuteTask(c, t) ==
    /\ frames[c].pc = "idle"
    /\ t.description = CallDescriptions[c]
    /\ InterLoop(c, t, 1, <<>>)
    /\ UNCHANGED heap
    /\ UNCHANGED notInter

\* The agent call c awaits returns r: append it, store the list in the
\* context, break when it failed, and run to the next await or to the return.
InterAgentReturns(c, r) ==
    /\ frames[c].pc = "seq_await"
    /\ r.agent = frames[c].task.agent_sequence[frames[c].idx]
    /\ heap' = [heap EXCEPT ![frames[c].context].previous_results = Some(c)]
    /\ IF ~r.success
       THEN InterReturnSuccess(c, frames[c].task, Append(frames[c].results, r))
       ELSE InterLoop(c, frames[c].task, frames[c].idx + 1,
                      Append(frames[c].results, r))
    /\ UNCHANGED notInter

\* The agent call c awaits raises, or the timer of its wait_for fires
\* (TimeoutError): an except clause of execute_task returns the failure.
InterAgentRaises(c, exc) ==
    /\ frames[c].pc = "seq_await"
    /\ frames' = [frames EXCEPT
                    ![c].pc = "returned",
                    ![c].envelope = ErrorEnvelope(exc)]
    /\ UNCHANGED <<execution_history, heap>>
    /\ UNCHANGED notInter

\* What the agents can return.
InterResults == UNION {AgentResults(a) : a \in AgentIds}

NextInterleaved ==
    \/ \E c \in CallIds, t \in InterTasks : InterExecuteTask(c, t)
    \/ \E c \in CallIds, r \in InterResults : InterAgentReturns(c, r)
    \/ \E c \in CallIds, exc \in AgentExceptions : InterAgentRaises(c, exc)

SpecInterleaved == Init /\ [][NextInterleaved]_vars

----------------------------------------------------------------------------
\* The properties.

\* execute_task has returned from a call in this mode.
Done(mode) == pc = "returned" /\ task.execution_mode = mode

\* The results list of the returned envelope.
Out == envelope.result.results

\* The positions of agent_sequence whose agent was invoked.
InvokedPositions == {invoked[m].pos : m \in DOMAIN invoked}

\* C1: for a task in mode Sequential, Parallel or Conditional, whatever its
\* agents do (return success, return failure, raise, run past the timeout),
\* execute_task does not raise, and what it returns has a boolean success.
C1_NeverRaises ==
    (pc # "idle" /\ task.execution_mode \in Modes) =>
        /\ pc # "raised"
        /\ pc = "returned" =>
              /\ "success" \in DOMAIN envelope
              /\ envelope.success \in BOOLEAN

C1_Witness ==
    /\ pc = "returned"
    /\ task.execution_mode \in Modes
    /\ ~envelope.success
    /\ envelope.error = "agent crashed"

\* C2: in Sequential mode, when the agent at position i is the first whose
\* result has success false, the results are those of the agents up to and
\* including i, in order, and no agent after i is invoked.
C2_SequentialStopsAtFailure ==
    (pc \in {"sequential", "seq_await"} \/ Done("sequential")) =>
        \A i \in DOMAIN results :
            /\ results[i].agent = task.agent_sequence[i]
            /\ invoked[i].pos = i
            /\ ~results[i].success =>
                  /\ Len(results) = i
                  /\ Len(invoked) = i
                  /\ pc = "returned"
                  /\ envelope.success
                  /\ Out = results

C2_Witness ==
    /\ Done("sequential")
    /\ Len(task.agent_sequence) = 3
    /\ Len(results) = 2
    /\ results[1].success
    /\ ~results[2].success

\* C3: a Sequential run that stops at an agent's failed result is still
\* returned with success true; the failure is the last entry of the results
\* and appears nowhere else in the envelope.
C3_ShortCircuitIsSuccess ==
    (Done("sequential") /\ results # <<>> /\ ~Last(results).success) =>
        /\ envelope.success = TRUE
        /\ DOMAIN envelope = {"success", "result"}
        /\ Last(Out) = Last(results)
        /\ envelope.result.final_output = Last(results)
        /\ \A k \in 1..(Len(Out) - 1) : Out[k].success

C3_Witness ==
    /\ Done("sequential")
    /\ Len(results) = 1
    /\ ~results[1].success
    /\ envelope.success
    /\ Len(task.agent_sequence) > 1

\* C4: a Parallel run that finishes within the deadline returns one entry per
\* agent of agent_sequence, entry k being what agent_sequence[k] produced,
\* whatever the order the agents completed in, and successful_agents counts
\* the entries with success true.
C4_ParallelResultsByPosition ==
    (Done("parallel") /\ ~timedOut) =>
        /\ envelope.success
        /\ Len(Out) = Len(task.agent_sequence)
        /\ \A k \in DOMAIN task.agent_sequence :
              /\ Out[k].agent = task.agent_sequence[k]
              /\ futs[k].state = "returned" => Out[k] = futs[k].value
              /\ futs[k].state = "raised" => ~Out[k].success
        /\ envelope.result.successful_agents =
              Cardinality({k \in DOMAIN Out : Out[k].success})

C4_Witness ==
    /\ Done("parallel")
    /\ envelope.success
    /\ Len(Out) = 3
    /\ ~Out[1].success
    /\ Out[2].success
    /\ Out[3].success

\* C5: in Parallel mode an agent that raises becomes the entry
\* {success: false, agent: its name, error: the message}; the other agents
\* run to completion and their results are returned unchanged; the envelope
\* has success true.
C5_ParallelIsolatesExceptions ==
    (pc \in {"par_await", "returned"} /\ task.execution_mode = "parallel"
        /\ ~timedOut /\ \E k \in DOMAIN futs : futs[k].state = "raised") =>
        /\ Len(invoked) = Len(task.agent_sequence)
        /\ pc = "returned" =>
              /\ envelope.success
              /\ \A k \in DOMAIN futs :
                    IF futs[k].state = "raised"
                    THEN Out[k] = [success |-> FALSE,
                                   agent |-> task.agent_sequence[k],
                                   error |-> futs[k].value.msg]
                    ELSE futs[k].state = "returned" /\ Out[k] = futs[k].value

C5_Witness ==
    /\ Done("parallel")
    /\ Len(futs) = 3
    /\ futs[2].state = "raised"
    /\ futs[1].state = "returned"
    /\ futs[3].state = "returned"
    /\ envelope.success
    /\ envelope.result.successful_agents = 2

\* Agent j of a Conditional run is to be invoked: none was invoked before
\* it, or the last one invoked before it returned success true.
Gate(j) ==
    LET before == {m \in DOMAIN invoked : invoked[m].pos < j}
    IN  \/ before = {}
        \/ results[CHOOSE m \in before : \A m2 \in before : m2 <= m].success

\* C6: in Conditional mode an agent is invoked if and only if no agent was
\* executed before it in the run or the most recently executed agent
\* returned success true; a skipped agent adds no entry to the results.
C6_ConditionalGate ==
    (pc = "conditional" \/ (Done("conditional") /\ envelope.success)) =>
        /\ Len(results) = Len(invoked)
        /\ \A m \in DOMAIN results : results[m].agent = invoked[m].agent
        /\ \A j \in 1..(idx - 1) : (j \in InvokedPositions) <=> Gate(j)

C6_Witness ==
    /\ Done("conditional")
    /\ envelope.success
    /\ Len(task.agent_sequence) = 3
    /\ InvokedPositions = {1, 2}
    /\ Len(Out) = 2

\* C7: when an invoked agent is still running at the deadline, execute_task
\* returns {success: false, error: "Task execution timeout"}, and it returns
\* this envelope in no other case.
C7_TimeoutEnvelopeIsDistinct ==
    pc = "returned" =>
        /\ timedOut => envelope = [success |-> FALSE, error |-> "Task execution timeout"]
        /\ ~timedOut => envelope # [success |-> FALSE, error |-> "Task execution timeout"]

\* C8: the envelope of a run that timed out has no results at all, and in
\* Sequential and Conditional mode no agent after the one that timed out is
\* invoked.
C8_TimeoutDiscardsEverything ==
    timedOut =>
        /\ pc = "returned"
        /\ DOMAIN envelope = {"success", "error"}
        /\ ~envelope.success
        /\ task.execution_mode \in {"sequential", "conditional"} =>
              /\ Last(invoked).pos = idx
              /\ \A m \in DOMAIN invoked : invoked[m].pos <= idx

C8_Witness ==
    /\ timedOut
    /\ Done("sequential")
    /\ Len(results) = 1
    /\ idx = 2
    /\ Len(task.agent_sequence) = 3

\* C9: in Sequential and Conditional mode the deadline runs from the start
\* of each agent call, so a run whose agents each take less than the timeout
\* does not time out however long the run takes; in Parallel mode one
\* deadline runs from the fan-out, and the run times out when an agent is
\* still running at that time.
C9_DeadlinePerCallOrPerBatch ==
    /\ (timedOut /\ task.execution_mode \in {"sequential", "conditional"}) =>
          clock - Last(invoked).at = task.timeout
    /\ (timedOut /\ task.execution_mode = "parallel") =>
          /\ clock = task.timeout
          /\ \E k \in DOMAIN futs : futs[k].state = "pending"
    /\ pc = "par_await" =>
          /\ clock <= task.timeout
          /\ \A m \in DOMAIN invoked : invoked[m].at = 0
    /\ (Done("parallel") /\ envelope.success) => clock < task.timeout

C9_Witness ==
    /\ Done("sequential")
    /\ envelope.success
    /\ Len(Out) = 3
    /\ clock > task.timeout

\* C10: execute_task appends exactly one record to the execution history
\* when it returns success true, and leaves the history as it was when it
\* returns success false.
C10_HistoryOnSuccessOnly ==
    /\ pc \notin {"idle", "returned"} => execution_history = hist0
    /\ pc = "returned" =>
          IF envelope.success
          THEN /\ Len(execution_history) = Len(hist0) + 1
               /\ SubSeq(execution_history, 1, Len(hist0)) = hist0
               /\ Last(execution_history).task = task.description
               /\ Last(execution_history).result = envelope.result
          ELSE execution_history = hist0

C10_Witness ==
    /\ pc = "returned"
    /\ ~envelope.success
    /\ timedOut
    /\ execution_history = hist0

\* C16: execute_task on a task whose mode is none of Sequential, Parallel and
\* Conditional invokes no agent and returns {success: false, error: message}
\* to the caller instead of raising.
C16_UnknownModeIsAnEnvelope ==
    (pc # "idle" /\ task.execution_mode \notin Modes) =>
        /\ pc = "returned"
        /\ invoked = <<>>
        /\ results = <<>>
        /\ envelope = [success |-> FALSE, error |-> "Unknown execution mode: broadcast"]

C16_Witness ==
    /\ pc = "returned"
    /\ task.execution_mode = OtherMode
    /\ Len(task.agent_sequence) = 2
    /\ ~envelope.success

\* C19: in Sequential and Conditional mode an exception raised by an agent's
\* execute never aborts the run: unless the run times out, execute_task
\* returns success true and every invoked agent has its entry in the
\* results, a failed one for the agent that raised.
C19_AgentExceptionBecomesResult ==
    (pc = "returned" /\ task.execution_mode \in {"sequential", "conditional"}
        /\ ~timedOut) =>
        /\ envelope.success
        /\ Len(Out) = Len(invoked)

\* C20: in Sequential mode the first agent invoked is given task.description,
\* and every later one the str() of the response of the result just before
\* it, not the description.
C20_SequentialPipeline ==
    (pc # "idle" /\ task.execution_mode = "sequential") =>
        \A m \in DOMAIN invoked :
            /\ m = 1 => invoked[m].input = [lit |-> task.description, repr |-> None]
            /\ m > 1 =>
                  /\ invoked[m].input = [lit |-> "", repr |-> results[m - 1].response]
                  /\ invoked[m].input # [lit |-> task.description, repr |-> None]
            /\ invoked[m].agent = task.agent_sequence[m]

C20_Witness ==
    /\ Done("sequential")
    /\ Len(invoked) = 3
    /\ invoked[3].input = [lit |-> "", repr |-> [content |-> 2]]
    /\ invoked[1].input = [lit |-> "Test task", repr |-> None]

IsPrefix(s, t) == Len(s) <= Len(t) /\ \A k \in DOMAIN s : s[k] = t[k]

\* The execute_task calls that have returned success true so far.
SuccessfulCalls ==
    successes + (IF pc = "returned" /\ envelope.success THEN 1 ELSE 0)

\* C11: across add_agent, remove_agent, execute_task, agent_handoff and
\* get_stats calls the execution history only grows at its end (the history
\* before a step is a prefix of the history after it), and its length, which
\* get_stats reports as total_executions, is the number of execute_task
\* calls that returned success true.
C11_HistoryAppendOnly ==
    /\ [](/\ Len(execution_history) = SuccessfulCalls
          /\ GetStatsResult.total_executions = SuccessfulCalls
          /\ stats # None => stats.total_executions = successes)
    /\ [][IsPrefix(execution_history, execution_history')]_vars

C11_Witness ==
    /\ stats # None
    /\ stats.total_executions = 2
    /\ stats.total_agents = 1
    /\ lastOp # None
    /\ lastOp.op = "remove_agent"
    /\ lastOp.previous # None
    /\ execution_history[1] # execution_history[2]

\* C12: the registry holds one agent per name, the one added last under that
\* name: a lookup of the name, the one agent_handoff makes included, gives
\* that agent, and the size of the registry is the number of distinct names
\* added (and not removed since).
C12_LastAddedWins ==
    /\ \A n \in RegistryNames :
          IF latest[n] = 0
          THEN ~Has(agents, n)
          ELSE Has(agents, n) /\ Get(agents, n) = [name |-> n, id |-> latest[n]]
    /\ Len(agents) = Cardinality({n \in RegistryNames : latest[n] # 0})
    /\ Cardinality({agents[k].key : k \in DOMAIN agents}) = Len(agents)
    /\ hpc = "await" =>
          hcalls[1].agent = [name |-> handoff.to_agent,
                             id |-> latest[handoff.to_agent]]

C12_Witness ==
    /\ lastOp # None
    /\ lastOp.op = "add_agent"
    /\ lastOp.previous = [name |-> 1, id |-> 1]
    /\ Len(agents) = 2
    /\ agents[1].value = [name |-> 1, id |-> 2]
    /\ hpc = "await"
    /\ hcalls[1].agent = [name |-> 1, id |-> 2]

\* C13: remove_agent raises nothing and leaves the history alone; for a name
\* that is not registered it leaves the registry as it is, and for a
\* registered name it removes that entry and no other.
C13_RemoveAgent ==
    [][\A n \in RegistryNames :
          RemoveAgent(n) =>
             /\ lastOp'.raised = None
             /\ execution_history' = execution_history
             /\ IF ~Has(agents, n)
                THEN agents' = agents
                ELSE /\ ~Has(agents', n)
                     /\ Len(agents') = Len(agents) - 1
                     /\ \A m \in RegistryNames \ {n} :
                           Has(agents, m) =>
                              Has(agents', m) /\ Get(agents', m) = Get(agents, m)]_vars

C13_Witness ==
    /\ lastOp # None
    /\ lastOp.op = "remove_agent"
    /\ lastOp.previous = None
    /\ lastOp.name = 2
    /\ Len(agents) = 1
    /\ execution_history # <<>>

\* C14: agent_handoff(from, to, context), whether or not from is registered:
\* when to is not registered it raises ValueError and invokes no agent;
\* otherwise it invokes the agent registered under to once, with the
\* handoff_task of the context (or "Continue the work" when the context has
\* none) and the whole context, and returns what that agent returned.
C14_Handoff ==
    hpc # "idle" =>
        IF ~Has(handoff.agents0, handoff.to_agent)
        THEN /\ hpc = "raised"
             /\ handoffOut.kind = "ValueError"
             /\ handoffOut.msg = <<"Agent '", handoff.to_agent, "' not found in orchestrator">>
             /\ hcalls = <<>>
        ELSE /\ Len(hcalls) = 1
             /\ hcalls[1].agent = Get(handoff.agents0, handoff.to_agent)
             /\ hcalls[1].task =
                   IF "handoff_task" \in DOMAIN handoff.context
                   THEN handoff.context.handoff_task
                   ELSE "Continue the work"
             /\ hcalls[1].context = handoff.context
             /\ hpc = "returned" =>
                   /\ hcalls[1].out.state = "returned"
                   /\ handoffOut = hcalls[1].out.value
                   /\ handoffOut.agent = handoff.to_agent

C14_Witness ==
    /\ hpc = "returned"
    /\ ~Has(handoff.agents0, handoff.from_agent)
    /\ "handoff_task" \in DOMAIN handoff.context
    /\ hcalls[1].task = "Review the draft"
    /\ hcalls[1].agent.id = 2
    /\ handoffOut.success

\* C15: no step of an agent_handoff call, whether the call returns or
\* raises, changes the execution history or the registry.
C15_HandoffLeavesStateAlone ==
    [][(hpc # "idle" \/ hpc' # "idle") =>
          /\ execution_history' = execution_history
          /\ agents' = agents]_vars

C15_Witness ==
    /\ hpc = "returned"
    /\ Len(execution_history) = 1
    /\ Len(agents) = 2

\* C17: Agent.execute never raises: when an exception leaves the memory
\* retrieval, the reasoning, the tool execution, the response generation or
\* the memory storage, it returns {success: false, error: the message,
\* agent: its name}; and every result it returns, successful or failed, has
\* the agent's own name under agent.
C17_AgentNeverRaises ==
    /\ apc # "raised"
    /\ apc = "returned" =>
          /\ aresult.agent = aconfig.name
          /\ aresult.agent = AgentName
          /\ IF afailed # None
             THEN aresult = [success |-> FALSE, error |-> afailed.exc.msg,
                             agent |-> AgentName]
             ELSE aresult.success

C17_Witness ==
    /\ apc = "returned"
    /\ afailed # None
    /\ afailed.step = "store"
    /\ ~aresult.success
    /\ Len(toolcalls) = 2
    /\ agent_history # <<>>

\* The positions of the tool calls that name a tool of the agent, in order.
KnownPositions(calls) ==
    SelectSeq([k \in 1..Len(calls) |-> k], LAMBDA k : calls[k].tool \in AgentTools)

\* C18: a tool call that raises does not abort the agent's task: it is the
\* entry {tool, success: false, error} of the tool results, every tool call
\* of the request that names a tool of the agent is executed whatever the
\* calls before it did, and execute returns success true (unless another
\* step of execute raises).
C18_ToolFailureIsAnEntry ==
    /\ (apc = "returned" /\ afailed = None
          /\ \E j \in DOMAIN toolcalls : toolcalls[j].raised) =>
          /\ aresult.success
          /\ aresult.reasoning.tool_results = [some |-> tool_results]
    /\ (apc \in {"respond", "store", "returned"} /\ toolcalls # <<>>) =>
          LET calls == reasoning_result.tool_calls.some
          IN  /\ [j \in DOMAIN toolcalls |-> toolcalls[j].pos] = KnownPositions(calls)
              /\ Len(tool_results) = Len(toolcalls)
              /\ \A j \in DOMAIN toolcalls :
                    LET tool == calls[toolcalls[j].pos].tool
                    IN  tool_results[j] =
                           IF toolcalls[j].raised
                           THEN [tool |-> tool, success |-> FALSE,
                                 error |-> "tool failed"]
                           ELSE [tool |-> tool, success |-> TRUE,
                                 result |-> [output |-> tool]]

C18_Witness ==
    /\ apc = "returned"
    /\ aresult.success
    /\ memory_system
    /\ Len(toolcalls) = 2
    /\ toolcalls[1].raised
    /\ ~toolcalls[2].raised
    /\ ~aresult.reasoning.tool_results.some[1].success

\* C21: in Sequential mode the context the k-th agent invoked (k >= 2) is
\* given has under previous_results exactly the results of the agents 1..k-1
\* of the run, in execution order; in Conditional mode the same holds for the
\* key results.
C21_ContextAccumulatesResults ==
    (pc # "idle" /\ task.execution_mode \in {"sequential", "conditional"}) =>
        \A m \in DOMAIN invoked :
            m >= 2 =>
               LET seen == IF task.execution_mode = "sequential"
                           THEN invoked[m].context.previous_results
                           ELSE invoked[m].context.results
               IN  /\ seen = [some |-> SubSeq(results, 1, m - 1)]
                   /\ \A j \in 1..(m - 1) : seen.some[j].agent = invoked[j].agent

C21_Witness ==
    /\ Done("sequential")
    /\ Len(invoked) = 3
    /\ Len(invoked[3].context.previous_results.some) = 2
    /\ invoked[3].context.previous_results.some[1].agent = 1
    /\ invoked[3].context.previous_results.some[2].agent = 2
    /\ invoked[3].context.topic = [some |-> "draft"]
    /\ invoked[1].context.previous_results = None

\* C22: in Parallel mode every agent of agent_sequence is invoked with
\* task.description and with task.context, before any result exists, and
\* nothing is written into task.context during the run.
C22_ParallelSharesInputs ==
    (pc # "idle" /\ task.execution_mode = "parallel") =>
        /\ pc \in {"par_await", "returned"} =>
              Len(invoked) = Len(task.agent_sequence)
        /\ \A m \in DOMAIN invoked :
              /\ invoked[m].agent = task.agent_sequence[m]
              /\ invoked[m].input = [lit |-> task.description, repr |-> None]
              /\ invoked[m].context = task.context
              /\ invoked[m].returned = 0
              /\ invoked[m].at = 0
        /\ task_context = task.context

C22_Witness ==
    /\ Done("parallel")
    /\ envelope.success
    /\ Len(invoked) = 3
    /\ task.context # None
    /\ task.context.topic = [some |-> "draft"]
    /\ ~Out[1].success
    /\ Out[2].success

\* C23: within a Sequential or Conditional run at most one agent execution
\* is in flight: an agent is invoked only after every agent invoked before
\* it has returned, and the results list is in the order of the invocations.
C23_OneAgentAtATime ==
    (pc # "idle" /\ task.execution_mode \in {"sequential", "conditional"}) =>
        /\ Len(results) <= Len(invoked)
        /\ Len(invoked) <= Len(results) + 1
        /\ pc \in {"seq_await", "cond_await"} => Len(invoked) = Len(results) + 1
        /\ \A m \in DOMAIN invoked : invoked[m].returned = m - 1
        /\ \A m \in DOMAIN results : results[m].agent = invoked[m].agent
        /\ \A m, n \in DOMAIN invoked : m < n => invoked[m].pos < invoked[n].pos

C23_Witness ==
    /\ pc = "cond_await"
    /\ Len(invoked) = 3
    /\ Len(results) = 2
    /\ invoked[3].returned = 2
    /\ invoked[3].at > invoked[2].at

\* C24: execute_task does not modify the task: in every mode the dict
\* task.context has the keys and values after execute_task returns that it
\* had when execute_task was called.
C24_TaskContextUntouched ==
    pc = "returned" => task_context = task.context

\* C26: execute_task neither reads nor modifies the registry: no step of an
\* execute_task call changes it, and the agents of a task are invoked
\* whether or not they are registered.
C26_RegistryApartFromTasks ==
    /\ [][(pc' # pc \/ run' # run \/ envelope' # envelope
             \/ execution_history' # execution_history) =>
            agents' = agents]_vars
    /\ []((pc = "returned" /\ task.execution_mode = "sequential"
               /\ task.agent_sequence # <<>>) =>
             /\ invoked # <<>>
             /\ invoked[1].agent = task.agent_sequence[1])

C26_Witness ==
    /\ pc = "returned"
    /\ envelope.success
    /\ invoked # <<>>
    /\ invoked[1].agent = 1
    /\ ~Has(agents, 1)
    /\ Has(agents, 2)
    /\ lastOp # None
    /\ lastOp.op = "remove_agent"
    /\ lastOp.name = 1
    /\ lastOp.previous # None

\* C27: in Sequential mode final_output is the last element of results,
\* which is the result of the last agent that was executed.
C27_FinalOutputIsLastResult ==
    (Done("sequential") /\ envelope.success /\ Out # <<>>) =>
        /\ envelope.result.final_output = Out[Len(Out)]
        /\ envelope.result.final_output.agent = invoked[Len(invoked)].agent
        /\ Len(Out) = Len(invoked)

C27_Witness ==
    /\ Done("sequential")
    /\ envelope.success
    /\ Len(task.agent_sequence) = 2
    /\ Len(Out) = 2
    /\ Out[1].success
    /\ envelope.result.final_output = [success |-> TRUE, response |-> [content |-> 2], agent |-> 2]

\* C28: an envelope with success true carries a result whose mode tag is the
\* execution mode of the task.
C28_ModeTag ==
    (pc = "returned" /\ envelope.success) =>
        /\ envelope.result.mode = task.execution_mode
        /\ envelope.result.mode \in Modes

C28_Witness ==
    /\ pc = "returned"
    /\ envelope.success
    /\ envelope.result.mode = "parallel"
    /\ Len(Out) = 2
    /\ envelope.result.successful_agents = 1

\* C29: in Conditional mode executed_agents is the number of agents invoked
\* in the run and the length of results, and is at most the length of
\* agent_sequence.
C29_ExecutedAgents ==
    (Done("conditional") /\ envelope.success) =>
        /\ envelope.result.executed_agents = Len(invoked)
        /\ envelope.result.executed_agents = Len(Out)
        /\ envelope.result.executed_agents <= Len(task.agent_sequence)

C29_Witness ==
    /\ Done("conditional")
    /\ envelope.success
    /\ Len(task.agent_sequence) = 3
    /\ envelope.result.executed_agents = 2
    /\ Len(invoked) = 2

\* The execute calls of the agent that have returned success true so far.
AgentSuccessfulCalls ==
    asuccesses + (IF apc = "returned" /\ aresult.success THEN 1 ELSE 0)

\* C30: the agent's execution history grows by one record, at its end, with
\* each execute call that returns success true and is left as it is by one
\* that returns success false, so the executions of get_stats is the number
\* of successful executions of the agent.
C30_AgentHistoryCountsSuccesses ==
    /\ [](/\ Len(agent_history) = AgentSuccessfulCalls
          /\ apc # "none" => AgentStats.executions = AgentSuccessfulCalls
          /\ astats # None => astats.executions = asuccesses)
    /\ [][/\ IsPrefix(agent_history, agent_history')
          /\ Len(agent_history') = Len(agent_history) +
                (IF apc # "returned" /\ apc' = "returned" /\ aresult'.success
                 THEN 1 ELSE 0)]_vars

C30_Witness ==
    /\ apc = "returned"
    /\ ~aresult.success
    /\ afailed.step = "store"
    /\ Len(agent_history) = 1
    /\ asuccesses = 1
    /\ AgentStats.executions = 1

\* The calls of execute_task that are between their start and their return.
InFlight == {c \in CallIds : frames[c].pc = "seq_await"}

\* The calls that returned a success envelope.
Succeeded == {c \in CallIds : frames[c].pc = "returned" /\ frames[c].envelope.success}

\* The records of the history made for the task of call c.
RecordsOf(c) ==
    {k \in 1..Len(execution_history) :
        execution_history[k].task = frames[c].task.description}

\* C25: two execute_task calls interleaved on one orchestrator for two
\* distinct tasks do not interfere: a returned results list holds results of
\* the agents of its own task's agent_sequence only, in their order; the dict
\* the agents of one call are given never holds the results list of the other
\* call while both are in flight; and each call that succeeded has exactly one
\* history record, the others none.
C25_InterleavedCallsDoNotInterfere ==
    /\ \A c \in Succeeded :
          LET rs == frames[c].envelope.result.results
          IN  /\ Len(rs) <= Len(frames[c].task.agent_sequence)
              /\ \A k \in 1..Len(rs) : rs[k].agent = frames[c].task.agent_sequence[k]
    /\ \A c \in InFlight : \A d \in InFlight \ {c} :
          heap[frames[c].context].previous_results # Some(d)
    /\ \A c \in CallIds :
          frames[c].pc # "idle" =>
             Cardinality(RecordsOf(c)) = IF c \in Succeeded THEN 1 ELSE 0
    /\ Len(execution_history) = Cardinality(Succeeded)

\* The last n elements of s, all of s when it has fewer.
LastN(s, n) ==
    LET from == IF Len(s) > n THEN Len(s) - n ELSE 0
    IN  [k \in 1..(Len(s) - from) |-> s[from + k]]

\* C31: for max_messages >= 0, after every sequence of add_message calls the
\* stored messages are at most max_messages and are exactly the most recently
\* added ones, in insertion order.
C31_MessagesAreTheMostRecent ==
    conv # None =>
        /\ Len(conv.messages) <= conv.max_messages
        /\ conv.messages = LastN(added, conv.max_messages)

\* C32: in Sequential and in Conditional mode a results list holds at most
\* one entry with success false, and that entry is its last one: during the
\* run and in the returned envelope every entry but the last succeeded, and
\* no agent is invoked once the list holds a failure.
C32_OnlyTheLastResultFails ==
    (pc # "idle" /\ task.execution_mode \in {"sequential", "conditional"}) =>
        /\ \A k \in 1..(Len(results) - 1) : results[k].success
        /\ \A m \in DOMAIN invoked :
              \A k \in 1..invoked[m].returned : results[k].success
        /\ (pc = "returned" /\ envelope.success) =>
              /\ Out = results
              /\ \A k \in 1..(Len(Out) - 1) : Out[k].success

C32_Witness ==
    /\ Done("conditional")
    /\ envelope.success
    /\ Len(task.agent_sequence) = 3
    /\ Len(Out) = 2
    /\ Out[1].success
    /\ ~Out[2].success
    /\ InvokedPositions = {1, 2}

\* C33: for every agent sequence and every fixed assignment of success and
\* failure to its agents, the Conditional run and the Sequential run invoke
\* the same prefix of the sequence and return results lists of the same
\* length with the same success flag at every position.
C33_ConditionalMatchesSequential ==
    (twin # None /\ twin.sequential.returned /\ twin.conditional.returned) =>
        LET rs == twin.sequential.results
            rc == twin.conditional.results
        IN  /\ twin.sequential.invoked = twin.conditional.invoked
            /\ twin.sequential.invoked = [k \in 1..Len(rs) |-> k]
            /\ Len(rs) = Len(rc)
            /\ \A k \in 1..Len(rs) : rs[k].success = rc[k].success

C33_Witness ==
    /\ twin # None
    /\ twin.sequential.returned
    /\ twin.conditional.returned
    /\ twin.outcomes = <<TRUE, FALSE, TRUE>>
    /\ twin.conditional.invoked = <<1, 2>>
    /\ Len(twin.sequential.results) = 2

\* The agent executions of the Parallel run that have started and not ended.
InFlightAgents == {k \in DOMAIN futs : futs[k].state = "pending"}

\* C34: in Parallel mode no more than max_concurrent_agents agent executions
\* of the task are in flight at any time, whatever the length of
\* agent_sequence and the max_concurrent_agents of the orchestrator.
C34_ParallelWithinLimit ==
    pc = "par_await" => Cardinality(InFlightAgents) <= max_concurrent_agents

\* C35: every execute_task call eventually returns an envelope, in every mode
\* and whatever its agents do, agents that never complete included, when the
\* timer of wait_for fires and a cancelled agent stops.
C35_EveryCallReturns ==
    (pc \notin {"idle", "returned"}) ~> (pc = "returned" /\ envelope # None)

C35_Witness ==
    /\ Done("conditional")
    /\ timedOut
    /\ envelope = TimeoutEnvelope
    /\ Len(results) = 1
    /\ Len(invoked) = 2
    /\ elapsed = task.timeout

\* No call execute awaits has raised: the only exception that can have left
\* the try body is the lookup of tool_calls in the reasoning result.
NoCallRaised ==
    /\ afailed # None => afailed.exc = MissingToolCalls
    /\ \A j \in DOMAIN toolcalls : ~toolcalls[j].raised

\* C36: for every reasoning result the reasoner can return, one with
\* requires_tools true and no tool calls listed included, Agent.execute
\* returns success true when the memory, reasoning, tool and
\* response-generation calls raise no error.
C36_ReasoningResultNeverFails ==
    (apc = "returned" /\ NoCallRaised) => aresult.success

\* C37: an agent made with memory_enabled false never calls retrieve or
\* store, a memory_system object passed to it or not; an agent with memory
\* enabled and a memory system calls retrieve before it reasons, and calls
\* store at most once per execute, after the response was generated and
\* never after an exception left a step of execute.
C37_MemoryCallsFollowTheConfig ==
    apc # "none" =>
        /\ ~aconfig.memory_enabled => memcalls = <<>>
        /\ memcalls # <<>> =>
              /\ memcalls[1] = "retrieve"
              /\ Len(memcalls) <= 2
              /\ Len(memcalls) = 2 =>
                    /\ memcalls[2] = "store"
                    /\ response # None
                    /\ afailed # None => afailed.step = "store"
        /\ (aconfig.memory_enabled /\ memory_passed
              /\ apc \in {"reason", "tools", "respond", "store", "returned"}) =>
              memcalls # <<>>

C37_Witness ==
    /\ apc = "returned"
    /\ ~aconfig.memory_enabled
    /\ memory_passed
    /\ aresult.success
    /\ response # None
    /\ memcalls = <<>>

\* What each strategy returns for a task without agents.
EmptyResult(mode) ==
    CASE mode = "sequential" ->
            [mode |-> "sequential", results |-> <<>>, final_output |-> None]
      [] mode = "parallel" ->
            [mode |-> "parallel", results |-> <<>>, successful_agents |-> 0]
      [] mode = "conditional" ->
            [mode |-> "conditional", results |-> <<>>, executed_agents |-> 0]

\* C38: a task with an empty agent_sequence succeeds in every mode without
\* invoking an agent: Sequential returns results [] and final_output None,
\* Parallel results [] and successful_agents 0, Conditional results [] and
\* executed_agents 0, and one record is appended to the history.
C38_EmptySequenceSucceeds ==
    (pc # "idle" /\ task.execution_mode \in Modes /\ task.agent_sequence = <<>>) =>
        /\ invoked = <<>>
        /\ pc \in {task.execution_mode, "par_await", "returned"}
        /\ pc = "returned" =>
              /\ envelope = [success |-> TRUE,
                             result |-> EmptyResult(task.execution_mode)]
              /\ execution_history =
                    Append(hist0, [task |-> task.description,
                                   result |-> EmptyResult(task.execution_mode)])

C38_Witness ==
    /\ Done("sequential")
    /\ task.agent_sequence = <<>>
    /\ envelope.success
    /\ envelope.result.final_output = None
    /\ Len(execution_history) = 1

====
